---------------------------- MODULE Spec2Model ----------------------------
(***************************************************************************)
(* Model of the adaptive question-selection core of gmat-tutor:            *)
(*   src/database.py   the record store and the weakness model             *)
(*   src/scheduler.py  the plan generator and the session monitor          *)
(*                                                                         *)
(* Weights are kept in hundredths (1.33 is 133), the clock in ticks of     *)
(* half a day, so that the whole-day floor of timedelta.days is visible.   *)
(***************************************************************************)
EXTENDS Integers, Naturals, Sequences, FiniteSets, TLC

VARIABLES
    questions,        \* the questions table, row i has id i
    study_logs,       \* the study_logs table, in insertion order
    user_weaknesses,  \* the user_weaknesses table: tag -> record
    now,              \* datetime.now(), in ticks
    config,           \* Scheduler.config
    session_errors,   \* Scheduler._current_session_errors: tag -> count
    result,           \* what the last operation returned
    calls,            \* record_answer calls since the last reset_session
    probe,            \* arguments and results of a direct function call
    ui,               \* st.session_state of the practice page (app.py)
    writers           \* the threads inside add_study_log: thread -> position

vars == <<questions, study_logs, user_weaknesses, now, config,
          session_errors, result, calls, probe, ui, writers>>

-----------------------------------------------------------------------------
(* Bounds of the exploration *)

MaxLogs == 3          \* rows of study_logs
MaxTarget == 4        \* largest question_count asked for
MaxCalls == 7         \* record_answer calls followed in one session
MaxTotal == 10        \* largest attempt count of a direct weight computation
MaxDays == 16         \* largest gap in days of a direct weight computation
MaxOrderLogs == 1     \* rows of study_logs before an ordering of the six-question store
MaxProgressLogs == 2  \* rows of study_logs before a progress summary
MaxQuotaLogs == 3     \* rows of study_logs before a plan over the quota store
MaxWeightSteps == 44  \* tag weights 0.30, 0.35, ... of a direct boost computation
MaxFrameLogs == 1     \* rows of study_logs next to the scheduler's operations
MaxFrameCalls == 3    \* calls of record_answer after a reset next to the other operations
MaxDrillLogs == 2     \* rows of study_logs before a drill over the drill store
MaxDrillCalls == 3    \* calls of record_answer after a reset over the drill store
MaxWriterLogs == 3    \* calls of add_study_log by the two threads together
MaxAnswers == 4       \* answers submitted on the practice page
MaxRounds == 2        \* plans started on the practice page

(* Program constants *)

TicksPerDay == 2
BASE_WEIGHT == 1
consecutive_error_threshold == 3
drill_pool_limit == 10
drill_size == 5
drill_recent_days == 7
logs_limit == 10000

None == "None"
BadTime == -1         \* a last_seen that datetime.fromisoformat rejects

-----------------------------------------------------------------------------
(* Generic helpers *)

Min(a, b) == IF a <= b THEN a ELSE b
Max(a, b) == IF a >= b THEN a ELSE b

RECURSIVE GCD(_, _)
GCD(a, b) == IF b = 0 THEN a ELSE GCD(b, a % b)

Range(s) == {s[i] : i \in DOMAIN s}

\* the subsequence of s whose elements satisfy Test, in order
RECURSIVE SelectSeqBy(_, _)
SelectSeqBy(s, keep) ==
    IF s = <<>> THEN <<>>
    ELSE (IF Head(s) \in keep THEN <<Head(s)>> ELSE <<>>)
         \o SelectSeqBy(Tail(s), keep)

Prefix(s, n) == SubSeq(s, 1, Min(n, Len(s)))

-----------------------------------------------------------------------------
(* database.py: the weakness model *)

\* IEEE-754 evaluation of error_factor * time_factor lands just below the
\* decimal tie x.xx5 for these (reduced error rate, days_since capped at 14);
\* for every other tie it lands on or above it.  Valid for total <= 12.
FloatTieDown ==
    { <<0, 1, 9>>, <<1, 2, 2>>, <<1, 2, 10>>, <<1, 6, 14>>, <<1, 12, 4>>,
      <<2, 9, 11>>, <<3, 4, 4>>, <<3, 10, 2>>, <<3, 10, 6>>, <<3, 10, 10>>,
      <<3, 10, 14>>, <<4, 5, 9>>, <<4, 9, 5>>, <<4, 9, 11>>, <<5, 6, 2>>,
      <<5, 6, 10>>, <<5, 6, 14>>, <<5, 12, 4>>, <<7, 10, 2>>, <<7, 10, 6>>,
      <<7, 10, 10>>, <<7, 10, 14>> }

\* the conversion that cuts the digits after the second one off
RoundTruncate(num, den, tieDown) == num \div den

\* round(num/den, 0) of a positive quotient; a tie goes down iff tieDown
Round(num, den, tieDown) ==
    LET q == num \div den
        r == num % den
    IN  IF 2 * r < den THEN q
        ELSE IF 2 * r > den THEN q + 1
        ELSE IF tieDown THEN q ELSE q + 1

\* the difference taken the wrong way round, as under a clock set back
days_since_reversed(nowT, last_seen) ==
    IF last_seen = BadTime THEN 0 ELSE (last_seen - nowT) \div TicksPerDay

\* (now_dt - last_dt).days, 0 when last_seen does not parse
days_since(nowT, last_seen) ==
    IF last_seen = BadTime THEN 0 ELSE (nowT - last_seen) \div TicksPerDay

\* the factor whose keep-alive branch lifts a stale low rate to the cap
time_factor_strong_boost(rateNum, rateDen, days) ==
    LET linear == Min(30, 16 + days)
    IN  IF rateNum * 10 < 3 * rateDen /\ days > 7
        THEN Max(linear, 30)
        ELSE linear

\* the factor without its cap of 1.5
time_factor_uncapped(rateNum, rateDen, days) ==
    LET linear == 16 + days
    IN  IF rateNum * 10 < 3 * rateDen /\ days > 7
        THEN Max(linear, 24)
        ELSE linear

\* time_factor * 20
\* the keep-alive branch entered from the sixth day on, where the linear term
\* is still below 1.2
time_factor_early_keep_alive(rateNum, rateDen, days) ==
    LET linear == Min(30, 16 + days)
    IN  IF rateNum * 10 < 3 * rateDen /\ days > 5
        THEN Max(linear, 24)
        ELSE linear

time_factor(rateNum, rateDen, days) ==
    LET linear == Min(30, 16 + days)
    IN  IF rateNum * 10 < 3 * rateDen /\ days > 7
        THEN Max(linear, 24)
        ELSE linear

_calculate_weight(error_count, total, nowT, last_seen) ==
    LET rateNum == IF total > 0 THEN error_count ELSE 1
        rateDen == IF total > 0 THEN total ELSE 2
        g       == GCD(rateDen, rateNum)
        days    == days_since(nowT, last_seen)
        tf      == time_factor(rateNum, rateDen, days)
        \* error_factor = (rateDen + 3 rateNum) / (2 rateDen), time_factor = tf/20
    IN  Round(BASE_WEIGHT * 5 * (rateDen + 3 * rateNum) * tf, 2 * rateDen,
              <<rateNum \div g, rateDen \div g, Min(days, 14)>> \in FloatTieDown)

HasRecord(w, tag) == tag \in DOMAIN w

\* the update that hands _calculate_weight the new last_seen, not the row's
_update_weakness_fresh_last_seen(w, tag, is_error, nowT) ==
    IF HasRecord(w, tag)
    THEN LET row == w[tag]
             new_error_count == row.error_count + (IF is_error THEN 1 ELSE 0)
             new_total == row.total_attempts + 1
             new_weight == _calculate_weight(new_error_count, new_total,
                                            nowT, nowT)
         IN  [w EXCEPT ![tag] = [error_count |-> new_error_count,
                                 total_attempts |-> new_total,
                                 last_seen |-> nowT,
                                 weight |-> new_weight]]
    ELSE (tag :> [error_count |-> IF is_error THEN 1 ELSE 0,
                  total_attempts |-> 1,
                  last_seen |-> nowT,
                  weight |-> IF is_error THEN 200 ELSE 100]) @@ w

\* the update that leaves total_attempts as it was
_update_weakness_same_total(w, tag, is_error, nowT) ==
    IF HasRecord(w, tag)
    THEN LET row == w[tag]
             new_error_count == row.error_count + (IF is_error THEN 1 ELSE 0)
             new_total == row.total_attempts
             new_weight == _calculate_weight(new_error_count, new_total,
                                            nowT, row.last_seen)
         IN  [w EXCEPT ![tag] = [error_count |-> new_error_count,
                                 total_attempts |-> new_total,
                                 last_seen |-> nowT,
                                 weight |-> new_weight]]
    ELSE (tag :> [error_count |-> IF is_error THEN 1 ELSE 0,
                  total_attempts |-> 1,
                  last_seen |-> nowT,
                  weight |-> IF is_error THEN 200 ELSE 100]) @@ w

_update_weakness(w, tag, is_error, nowT) ==
    IF HasRecord(w, tag)
    THEN LET row == w[tag]
             new_error_count == row.error_count + (IF is_error THEN 1 ELSE 0)
             new_total == row.total_attempts + 1
             new_weight == _calculate_weight(new_error_count, new_total,
                                            nowT, row.last_seen)
         IN  [w EXCEPT ![tag] = [error_count |-> new_error_count,
                                 total_attempts |-> new_total,
                                 last_seen |-> nowT,
                                 weight |-> new_weight]]
    ELSE (tag :> [error_count |-> IF is_error THEN 1 ELSE 0,
                  total_attempts |-> 1,
                  last_seen |-> nowT,
                  weight |-> IF is_error THEN 200 ELSE 100]) @@ w

\* the loop that stops after the first tag of the question
UpdateTagsFirstOnly(w, tags, is_error, nowT) ==
    IF tags = <<>> THEN w
    ELSE _update_weakness(w, Head(tags), is_error, nowT)

\* for tag in question.skill_tags: self._update_weakness(tag, ...)
RECURSIVE UpdateTags(_, _, _, _)
UpdateTags(w, tags, is_error, nowT) ==
    IF tags = <<>> THEN w
    ELSE UpdateTags(_update_weakness(w, Head(tags), is_error, nowT),
                    Tail(tags), is_error, nowT)

\* the row, one without tags for the None of an unknown id
get_question(qs, question_id) ==
    IF question_id \in DOMAIN qs THEN qs[question_id]
    ELSE [subcategory |-> None, skill_tags |-> <<>>]


-----------------------------------------------------------------------------
(* The question bank.  A row is a Question of database.py; content is split
   into its first 100 characters (head) and the rest, passage_id 0 is NULL. *)

Q(sub, pid, head, tail, tags, diff) ==
    [subcategory |-> sub, passage_id |-> pid,
     content |-> [head |-> head, tail |-> tail],
     skill_tags |-> tags, difficulty |-> diff]

\* critical-reasoning questions only, one of them with two tags
StoreCR ==
    << Q("CR", 0, "c1", "", <<"Assumption">>, 2),
       Q("CR", 0, "c2", "", <<"Weaken", "Assumption">>, 4),
       Q("CR", 0, "c3", "", <<"Weaken">>, 3) >>

\* reading comprehension only: rows 1 and 3 open with the same passage, row 2
\* has no content
StoreRC ==
    << Q("RC", 0, "P1", "q1", <<"Inference">>, 3),
       Q("RC", 0, "", "", <<"Weaken">>, 0),
       Q("RC", 0, "P1", "q2", <<"Inference">>, 5) >>

\* both kinds; rows 2 and 3 share a passage through passage_id
StoreMixed ==
    << Q("CR", 0, "c1", "", <<"Assumption">>, 1),
       Q("RC", 1, "x", "q1", <<"Inference">>, 3),
       Q("RC", 1, "y", "q2", <<"Weaken">>, 2) >>

\* six critical-reasoning questions, two for each of three tags
StoreSix ==
    << Q("CR", 0, "s1", "", <<"Assumption">>, 2),
       Q("CR", 0, "s2", "", <<"Assumption">>, 3),
       Q("CR", 0, "s3", "", <<"Weaken">>, 3),
       Q("CR", 0, "s4", "", <<"Weaken">>, 4),
       Q("CR", 0, "s5", "", <<"Inference">>, 1),
       Q("CR", 0, "s6", "", <<"Inference">>, 5) >>

\* two questions of one tag, one of another, and a reading question
StoreQuota ==
    << Q("CR", 0, "k1", "", <<"Assumption">>, 3),
       Q("CR", 0, "k2", "", <<"Assumption">>, 3),
       Q("CR", 0, "k3", "", <<"Weaken">>, 3),
       Q("RC", 0, "P1", "q1", <<"Inference">>, 3) >>

\* tags with 2, 6 and 11 questions, for the pools of a drill
StoreDrill ==
    [i \in 1..19 |->
        Q("CR", 0, "d" \o ToString(i), "",
          IF i <= 2 THEN <<"Inference">>
          ELSE IF i <= 8 THEN <<"Assumption">>
          ELSE <<"Weaken">>, 3)]

Stores == {StoreCR, StoreRC, StoreMixed}

Tags == {"Assumption", "Weaken", "Inference"}

Subcategories == {"CR", "RC", "DS"}

\* SchedulerConfig: the defaults, and the other end of the settings page
DefaultConfig ==
    [default_question_count |-> 20, max_consecutive_same_tag |-> 3,
     keep_alive_quota |-> 10]

Configs ==
    {DefaultConfig,
     [default_question_count |-> 5, max_consecutive_same_tag |-> 1,
      keep_alive_quota |-> 30]}

\* the settings page with at most two questions of a tag in a row
ConfigTwo ==
    [default_question_count |-> 20, max_consecutive_same_tag |-> 2,
     keep_alive_quota |-> 10]

-----------------------------------------------------------------------------
(* database.py: queries *)

\* ids of all rows, in table order
get_all_questions(qs) == [i \in 1..Len(qs) |-> i]

\* the LIKE '%"tag"%' match on the JSON text of skill_tags
TagMatches(qs, id, tag) == tag \in Range(qs[id].skill_tags)

get_questions_by_tags(qs, tag, limit) ==
    Prefix(SelectSeqBy(get_all_questions(qs),
                       {i \in 1..Len(qs) : TagMatches(qs, i, tag)}), limit)

\* the rows ORDER BY timestamp DESC LIMIT limit, as the set of their indexes
get_study_logs(logs, limit) ==
    {i \in DOMAIN logs :
        Cardinality({j \in DOMAIN logs :
            \/ logs[j].timestamp > logs[i].timestamp
            \/ logs[j].timestamp = logs[i].timestamp /\ j < i}) < limit}

get_recent_logs_by_tag(qs, logs, nowT, tag, days) ==
    {i \in DOMAIN logs :
        /\ logs[i].question_id \in DOMAIN qs
        /\ TagMatches(qs, logs[i].question_id, tag)
        /\ logs[i].timestamp > nowT - days * TicksPerDay}


-----------------------------------------------------------------------------
(* scheduler.py: the plan generator.  A sequence of questions is a sequence
   of ids.  A random draw is the set of its possible outcomes; the order of a
   draw is dropped where the plan is shuffled afterwards anyway. *)

Ids(s) == Range(s)

\* [q for q in s if q.id not in ids]
Without(s, ids) == SelectSeqBy(s, Range(s) \ ids)

KSubsets(S, k) == {T \in SUBSET S : Cardinality(T) = k}

_get_attempted_ids(logs) ==
    {logs[i].question_id : i \in get_study_logs(logs, logs_limit)}

IdStr(id) == ToString(id)

_get_passage_key(qs, id) ==
    LET q == qs[id]
    IN  IF q.subcategory # "RC" THEN None
        ELSE IF q.passage_id # 0 THEN "p_" \o ToString(q.passage_id)
        ELSE IF q.content.head # "" THEN q.content.head
        ELSE None

GroupKey(qs, id) ==
    IF _get_passage_key(qs, id) # None THEN _get_passage_key(qs, id)
    ELSE IdStr(id)

\* the keys of passage_groups in insertion order
RECURSIVE PassageKeys(_, _)
PassageKeys(qs, rc) ==
    IF rc = <<>> THEN <<>>
    ELSE LET rest == PassageKeys(qs, Prefix(rc, Len(rc) - 1))
             key  == GroupKey(qs, rc[Len(rc)])
         IN  IF key \in Range(rest) THEN rest ELSE Append(rest, key)

PassageGroup(qs, rc, key) ==
    SelectSeqBy(rc, {id \in Range(rc) : GroupKey(qs, id) = key})

\* a selection that stops in the middle of a passage once the count is met
RECURSIVE TakeGroupsSplit(_, _, _, _, _)
TakeGroupsSplit(qs, rc, keys, target_count, selected) ==
    IF keys = <<>> \/ Len(selected) >= target_count THEN selected
    ELSE TakeGroupsSplit(qs, rc, Tail(keys), target_count,
             selected \o Prefix(PassageGroup(qs, rc, Head(keys)),
                                target_count - Len(selected)))

\* for group in groups: if len(selected) >= target_count: break
RECURSIVE TakeGroups(_, _, _, _, _)
TakeGroups(qs, rc, keys, target_count, selected) ==
    IF keys = <<>> \/ Len(selected) >= target_count THEN selected
    ELSE TakeGroups(qs, rc, Tail(keys), target_count,
                    selected \o PassageGroup(qs, rc, Head(keys)))

_select_rc_by_passage(qs, rc_questions, target_count, attempted_ids) ==
    LET keys == PassageKeys(qs, rc_questions)
        unseenKeys == {k \in Range(keys) :
            \E id \in Range(PassageGroup(qs, rc_questions, k)) :
                id \notin attempted_ids}
        unseen_passages == SelectSeqBy(keys, unseenKeys)
        seen_passages   == SelectSeqBy(keys, Range(keys) \ unseenKeys)
    IN  TakeGroups(qs, rc_questions, unseen_passages \o seen_passages,
                   target_count, <<>>)

TagWeight(w, tag) == IF HasRecord(w, tag) THEN w[tag].weight ELSE 100

\* max weight among the question's tags, in hundredths
QuestionTagWeight(qs, w, id) ==
    LET tags == Range(qs[id].skill_tags)
    IN  IF tags = {} THEN 100
        ELSE CHOOSE m \in {TagWeight(w, t) : t \in tags} :
                 \A t \in tags : TagWeight(w, t) <= m

\* diff_boost * 10
diff_boost(tag_weight, difficulty) ==
    LET diff == IF difficulty = 0 THEN 3 ELSE difficulty
    IN  IF tag_weight > 150
        THEN (IF diff = 2 THEN 13 ELSE IF diff = 3 THEN 10 ELSE 7)
        ELSE IF tag_weight < 100
        THEN (IF diff = 4 THEN 13 ELSE IF diff = 3 THEN 10 ELSE 7)
        ELSE 10

\* tag_weight * diff_boost, in thousandths
QuestionWeight(qs, w, id) ==
    QuestionTagWeight(qs, w, id)
        * diff_boost(QuestionTagWeight(qs, w, id), qs[id].difficulty)

\* the sampling that leaves a drawn question in the urn
_weighted_sample_with_replacement(qs, w, pool, count, exclude_ids) ==
    LET available == Without(pool, exclude_ids)
        n == Max(0, Min(count, Len(available)))
    IN  IF available = <<>> THEN {<<>>}
        ELSE [1..n -> Range(available)]

\* The possible results of the weighted sampling without replacement: every
\* draw takes a question of positive weight still available (all of them
\* when the weights sum to zero and are replaced by 1.0).
_weighted_sample(qs, w, pool, count, exclude_ids) ==
    LET available == Without(pool, exclude_ids)
        n == Max(0, Min(count, Len(available)))
        total_weight == \E id \in Range(available) : QuestionWeight(qs, w, id) # 0
        drawable == {id \in Range(available) :
                        ~total_weight \/ QuestionWeight(qs, w, id) > 0}
    IN  IF available = <<>> THEN {<<>>}
        ELSE {SelectSeqBy(available, T) :
                 T \in KSubsets(drawable, Min(n, Cardinality(drawable)))}

\* random.sample(candidates, k)
RandomSample(candidates, k) ==
    {SelectSeqBy(candidates, T) : T \in KSubsets(Range(candidates), k)}


\* int(target_count * keep_alive_quota), at least 1
keep_alive_count(cfg, target_count) ==
    Max(1, (target_count * cfg.keep_alive_quota) \div 100)

mastered_tags(w) ==
    {tag \in DOMAIN w : w[tag].weight < 100 /\ w[tag].total_attempts >= 3}

\* [q for q in unseen if q.skill_tags and any(t in mastered_tags ...)]
keep_alive_candidates(qs, w, unseen) ==
    SelectSeqBy(unseen, {id \in Range(unseen) :
                            Range(qs[id].skill_tags) \cap mastered_tags(w) # {}})

\* the possible keep_alive_questions (lines 153-161)
KeepAlive(qs, w, cfg, unseen, target_count) ==
    LET candidates == keep_alive_candidates(qs, w, unseen)
    IN  IF mastered_tags(w) # {} /\ unseen # <<>> /\ candidates # <<>>
        THEN RandomSample(candidates,
                 Min(keep_alive_count(cfg, target_count), Len(candidates)))
        ELSE {<<>>}

\* the keep-alive picks left in the unseen pool
main_unseen_unfiltered(unseen, selected_ids) == unseen

\* main_unseen = [q for q in unseen if q.id not in selected_ids]
main_unseen(unseen, selected_ids) == Without(unseen, selected_ids)

\* the main draw sized by the whole target, the keep-alive picks on top
MainDrawFullTarget(qs, w, unseen, seen, ka, target_count) ==
    LET selected_ids == Ids(ka)
        main_count == target_count
        mu == main_unseen(unseen, selected_ids)
        remaining == main_count - Len(mu)
    IN  IF Len(mu) >= main_count
        THEN {ka \o s : s \in _weighted_sample(qs, w, mu, main_count, selected_ids)}
        ELSE {ka \o mu \o s :
                 s \in IF remaining > 0
                       THEN _weighted_sample(qs, w, seen, remaining,
                                             selected_ids \cup Ids(mu))
                       ELSE {<<>>}}

\* lines 163-175, after the keep-alive draw ka
MainDraw(qs, w, unseen, seen, ka, target_count) ==
    LET selected_ids == Ids(ka)
        main_count == target_count - Len(ka)
        mu == main_unseen(unseen, selected_ids)
        remaining == main_count - Len(mu)
    IN  IF Len(mu) >= main_count
        THEN {ka \o s : s \in _weighted_sample(qs, w, mu, main_count, selected_ids)}
        ELSE {ka \o mu \o s :
                 s \in IF remaining > 0
                       THEN _weighted_sample(qs, w, seen, remaining,
                                             selected_ids \cup Ids(mu))
                       ELSE {<<>>}}

\* the selection that takes the attempted questions for the unseen pool
SelectNoRCSeenFirst(qs, w, cfg, all_questions, attempted_ids, target_count) ==
    LET unseen == SelectSeqBy(all_questions, attempted_ids)
        seen   == Without(all_questions, attempted_ids)
    IN  UNION {MainDraw(qs, w, unseen, seen, ka, target_count) :
                  ka \in KeepAlive(qs, w, cfg, unseen, target_count)}

\* lines 145-175: no RC question in the pool
SelectNoRC(qs, w, cfg, all_questions, attempted_ids, target_count) ==
    LET unseen == Without(all_questions, attempted_ids)
        seen   == SelectSeqBy(all_questions, attempted_ids)
    IN  UNION {MainDraw(qs, w, unseen, seen, ka, target_count) :
                  ka \in KeepAlive(qs, w, cfg, unseen, target_count)}

\* the mixed selection that keeps half of the plan for reading passages
SelectMixedHalfRC(qs, w, rc_questions, non_rc_questions, attempted_ids, target_count) ==
    LET unseen_non_rc == Without(non_rc_questions, attempted_ids)
        seen_non_rc   == SelectSeqBy(non_rc_questions, attempted_ids)
        non_rc_count  == Min((target_count + 1) \div 2, Len(non_rc_questions))
        remaining     == non_rc_count - Len(unseen_non_rc)
        first ==
            IF Len(unseen_non_rc) >= non_rc_count
            THEN _weighted_sample(qs, w, unseen_non_rc, non_rc_count, {})
            ELSE {unseen_non_rc \o s :
                     s \in IF remaining > 0
                           THEN _weighted_sample(qs, w, seen_non_rc, remaining,
                                                 Ids(unseen_non_rc))
                           ELSE {<<>>}}
    IN  {IF target_count - Len(sel) > 0
         THEN sel \o _select_rc_by_passage(qs, rc_questions,
                                           target_count - Len(sel), attempted_ids)
         ELSE sel : sel \in first}

\* lines 127-144: RC and non-RC questions in the pool
SelectMixed(qs, w, rc_questions, non_rc_questions, attempted_ids, target_count) ==
    LET unseen_non_rc == Without(non_rc_questions, attempted_ids)
        seen_non_rc   == SelectSeqBy(non_rc_questions, attempted_ids)
        non_rc_count  == Min(target_count, Len(non_rc_questions))
        remaining     == non_rc_count - Len(unseen_non_rc)
        first ==
            IF Len(unseen_non_rc) >= non_rc_count
            THEN _weighted_sample(qs, w, unseen_non_rc, non_rc_count, {})
            ELSE {unseen_non_rc \o s :
                     s \in IF remaining > 0
                           THEN _weighted_sample(qs, w, seen_non_rc, remaining,
                                                 Ids(unseen_non_rc))
                           ELSE {<<>>}}
    IN  {IF target_count - Len(sel) > 0
         THEN sel \o _select_rc_by_passage(qs, rc_questions,
                                           target_count - Len(sel), attempted_ids)
         ELSE sel : sel \in first}

\* lines 116-175: the possible selected_questions before the shuffle
SelectQuestions(qs, logs, w, cfg, all_questions, target_count) ==
    LET attempted_ids == _get_attempted_ids(logs)
        rc_questions == SelectSeqBy(all_questions,
            {id \in Range(all_questions) : qs[id].subcategory = "RC"})
        non_rc_questions == SelectSeqBy(all_questions,
            {id \in Range(all_questions) : qs[id].subcategory # "RC"})
    IN  IF rc_questions # <<>> /\ non_rc_questions = <<>>
        THEN {_select_rc_by_passage(qs, rc_questions, target_count, attempted_ids)}
        ELSE IF rc_questions # <<>>
        THEN SelectMixed(qs, w, rc_questions, non_rc_questions,
                         attempted_ids, target_count)
        ELSE SelectNoRC(qs, w, cfg, all_questions, attempted_ids, target_count)

\* the tags all questions of s[from..to] have in common
CommonTags(qs, s, from, to) ==
    {t \in Range(qs[s[from]].skill_tags) :
        \A k \in from..to : t \in Range(qs[s[k]].skill_tags)}

Swap(s, a, b) == [s EXCEPT ![a] = s[b], ![b] = s[a]]

\* the swap pass of _shuffle_with_constraints from window i on (1-based)
RECURSIVE SwapPass(_, _, _, _)
SwapPass(qs, s, i, max_consecutive) ==
    IF i > Len(s) - max_consecutive THEN s
    ELSE LET common == CommonTags(qs, s, i, i + max_consecutive)
             cands  == {j \in (i + max_consecutive + 1)..Len(s) :
                           Range(qs[s[j]].skill_tags) \cap common = {}}
             next   == IF common # {} /\ cands # {}
                       THEN Swap(s, i + max_consecutive,
                                 CHOOSE j \in cands : \A k \in cands : j <= k)
                       ELSE s
         IN  SwapPass(qs, next, i + 1, max_consecutive)

\* random.shuffle: every rearrangement of s
Shuffles(s) ==
    {[i \in 1..Len(s) |-> s[p[i]]] : p \in Permutations(1..Len(s))}

\* the possible results of _shuffle_with_constraints
_shuffle_with_constraints(qs, cfg, s) ==
    IF Len(s) <= 1 THEN {s}
    ELSE {SwapPass(qs, t, 1, cfg.max_consecutive_same_tag) : t \in Shuffles(s)}

\* the possible results of _get_top_weakness_tags over the rows in
\* ORDER BY weight DESC, the order of equal weights being the engine's
_get_top_weakness_tags(w, n) ==
    LET tags == DOMAIN w
        orders == {p \in [1..Cardinality(tags) -> tags] :
                     /\ \A i, j \in DOMAIN p : i # j => p[i] # p[j]
                     /\ \A i, j \in DOMAIN p : i < j => w[p[i]].weight >= w[p[j]].weight}
    IN  {Prefix(p, n) : p \in orders}

\* lines 94-100: the candidate pool
CandidatePool(qs, subcategory) ==
    IF subcategory # None
    THEN SelectSeqBy(get_all_questions(qs),
                     {id \in 1..Len(qs) : qs[id].subcategory = subcategory})
    ELSE get_all_questions(qs)


-----------------------------------------------------------------------------
(* scheduler.py: the session monitor *)

ErrorCount(errs, tag) == IF tag \in DOMAIN errs THEN errs[tag] ELSE 0

SetCount(errs, tag, n) ==
    IF tag \in DOMAIN errs THEN [errs EXCEPT ![tag] = n] ELSE (tag :> n) @@ errs

\* the loop without the reset of the counter that triggered the drill
RECURSIVE RecordTagsNoReset(_, _, _)
RecordTagsNoReset(errs, tags, is_correct) ==
    IF tags = <<>> THEN [errors |-> errs, drill |-> None]
    ELSE IF is_correct
    THEN RecordTagsNoReset(SetCount(errs, Head(tags), 0), Tail(tags), is_correct)
    ELSE LET n == ErrorCount(errs, Head(tags)) + 1
         IN  IF n >= consecutive_error_threshold
             THEN [errors |-> SetCount(errs, Head(tags), n), drill |-> Head(tags)]
             ELSE RecordTagsNoReset(SetCount(errs, Head(tags), n), Tail(tags),
                                    is_correct)

\* the loop in which a correct answer leaves the counters alone
RECURSIVE RecordTagsNoClear(_, _, _)
RecordTagsNoClear(errs, tags, is_correct) ==
    IF tags = <<>> \/ is_correct THEN [errors |-> errs, drill |-> None]
    ELSE LET n == ErrorCount(errs, Head(tags)) + 1
         IN  IF n >= consecutive_error_threshold
             THEN [errors |-> SetCount(errs, Head(tags), 0), drill |-> Head(tags)]
             ELSE RecordTagsNoClear(SetCount(errs, Head(tags), n), Tail(tags),
                                    is_correct)

\* the loop that triggers one wrong answer late
RECURSIVE RecordTagsLate(_, _, _)
RecordTagsLate(errs, tags, is_correct) ==
    IF tags = <<>> THEN [errors |-> errs, drill |-> None]
    ELSE IF is_correct
    THEN RecordTagsLate(SetCount(errs, Head(tags), 0), Tail(tags), is_correct)
    ELSE LET n == ErrorCount(errs, Head(tags)) + 1
         IN  IF n > consecutive_error_threshold
             THEN [errors |-> SetCount(errs, Head(tags), 0), drill |-> Head(tags)]
             ELSE RecordTagsLate(SetCount(errs, Head(tags), n), Tail(tags),
                                 is_correct)

\* the loop that goes on to the later tags after the drill
RECURSIVE RecordTagsContinue(_, _, _)
RecordTagsContinue(errs, tags, is_correct) ==
    IF tags = <<>> THEN [errors |-> errs, drill |-> None]
    ELSE IF is_correct
    THEN RecordTagsContinue(SetCount(errs, Head(tags), 0), Tail(tags), is_correct)
    ELSE LET n == ErrorCount(errs, Head(tags)) + 1
             hit == n >= consecutive_error_threshold
             rest == RecordTagsContinue(
                         SetCount(errs, Head(tags), IF hit THEN 0 ELSE n),
                         Tail(tags), is_correct)
         IN  [errors |-> rest.errors,
              drill |-> IF hit THEN Head(tags) ELSE rest.drill]

\* the loop of record_answer over question.skill_tags: the counters it
\* leaves and the tag it returns a drill for (None when it returns None)
RECURSIVE RecordTags(_, _, _)
RecordTags(errs, tags, is_correct) ==
    IF tags = <<>> THEN [errors |-> errs, drill |-> None]
    ELSE IF is_correct
    THEN RecordTags(SetCount(errs, Head(tags), 0), Tail(tags), is_correct)
    ELSE LET n == ErrorCount(errs, Head(tags)) + 1
         IN  IF n >= consecutive_error_threshold
             THEN [errors |-> SetCount(errs, Head(tags), 0), drill |-> Head(tags)]
             ELSE RecordTags(SetCount(errs, Head(tags), n), Tail(tags), is_correct)

\* the drill that is filled from the recently attempted questions first
_create_emergency_drill_recent_first(qs, logs, nowT, tag) ==
    LET all_questions == get_questions_by_tags(qs, tag, drill_pool_limit)
        recent_question_ids ==
            {logs[i].question_id :
                i \in get_recent_logs_by_tag(qs, logs, nowT, tag, drill_recent_days)}
        non_recent == Without(all_questions, recent_question_ids)
        recent     == SelectSeqBy(all_questions, recent_question_ids)
    IN  [tag |-> tag,
         questions |-> Prefix(recent \o non_recent, drill_size),
         triggered_at |-> nowT]

_create_emergency_drill(qs, logs, nowT, tag) ==
    LET all_questions == get_questions_by_tags(qs, tag, drill_pool_limit)
        recent_question_ids ==
            {logs[i].question_id :
                i \in get_recent_logs_by_tag(qs, logs, nowT, tag, drill_recent_days)}
        non_recent == Without(all_questions, recent_question_ids)
        recent     == SelectSeqBy(all_questions, recent_question_ids)
    IN  [tag |-> tag,
         questions |-> IF Len(non_recent) >= drill_size
                       THEN Prefix(non_recent, drill_size)
                       ELSE non_recent \o Prefix(recent, drill_size - Len(non_recent)),
         triggered_at |-> nowT]

-----------------------------------------------------------------------------
(* The state machine *)

EmptyMap == [t \in {} |-> 0]

NoResult == [op |-> "init"]
\* record_answer returning None
NoDrill == [tag |-> None, questions |-> <<>>, triggered_at |-> 0]
NoProbe == [fn |-> None]

\* the threads of the Streamlit sessions, which share the one DatabaseManager
\* of get_db()
Writers == {1, 2}

\* no thread is inside add_study_log
NoWriters == [w \in Writers |-> [pc |-> "idle"]]

\* init_session_state (app.py:80-96): no plan, nothing answered; log_saved
\* holds the log_saved_<question id>_<index> keys of st.session_state, and
\* answers, per answer the learner submitted, the plan and index it was given
\* at and the add_study_log and record_answer calls made for it
NoSession ==
    [current_plan |-> <<>>, current_question_idx |-> 0, show_result |-> FALSE,
     last_answer |-> [is_correct |-> None], answered_questions |-> EmptyMap,
     viewing_history |-> FALSE, session_logs |-> <<>>, log_saved |-> {},
     round |-> 0, answers |-> <<>>]

\* what the observer of a session has seen since reset_session: the number
\* of record_answer calls, the tag T while every call so far was a wrong
\* answer to a question whose only tag is T (None before the first call,
\* "mixed" afterwards), and per tag the wrong answers on questions carrying
\* it: all of them (wrong) and those in a row since the last correct one (run)
FreshCalls ==
    [n |-> 0, only |-> None, wrong |-> [t \in Tags |-> 0],
     run |-> [t \in Tags |-> 0]]

Init ==
    /\ questions \in Stores
    /\ study_logs = <<>>
    /\ user_weaknesses = EmptyMap
    /\ now = 0
    /\ config \in Configs
    /\ session_errors = EmptyMap
    /\ result = NoResult
    /\ calls = FreshCalls
    /\ probe = NoProbe
    /\ ui = NoSession
    /\ writers = NoWriters

\* DatabaseManager.add_study_log(StudyLog(question_id, is_correct, timestamp))
add_study_log(question_id, is_correct, timestamp) ==
    LET question == get_question(questions, question_id)
    IN  /\ study_logs' = Append(study_logs,
               [question_id |-> question_id, is_correct |-> is_correct,
                timestamp |-> timestamp])
        /\ user_weaknesses' =
               IF question.subcategory # None
               THEN UpdateTags(user_weaknesses, question.skill_tags,
                               ~is_correct, now)
               ELSE user_weaknesses
        /\ result' = [op |-> "add_study_log", lastrowid |-> Len(study_logs) + 1]
        /\ UNCHANGED <<questions, now, config, session_errors, calls, probe, ui, writers>>

\* add_study_log run by thread w, statement by statement.  The threads share
\* one sqlite3 connection opened with check_same_thread=False and no lock, so
\* the statements of two calls interleave.
\* The INSERT into study_logs and its commit (database.py:224-237), then
\* get_question
writer_insert_log(w, question_id, is_correct) ==
    /\ writers[w].pc = "idle"
    /\ study_logs' = Append(study_logs,
           [question_id |-> question_id, is_correct |-> is_correct,
            timestamp |-> now])
    /\ writers' = [writers EXCEPT ![w] =
           IF get_question(questions, question_id).skill_tags = <<>>
           THEN [pc |-> "idle"]
           ELSE [pc |-> "select", question_id |-> question_id,
                 is_correct |-> is_correct, tag |-> 1]]
    /\ UNCHANGED <<questions, user_weaknesses, now, config, session_errors,
                   result, calls, probe, ui>>

\* _update_weakness up to fetchone (database.py:289-294): now and the row of
\* the tag, if there is one, are read into locals
writer_select(w) ==
    /\ writers[w].pc = "select"
    /\ LET tag == questions[writers[w].question_id].skill_tags[writers[w].tag]
       IN  writers' = [writers EXCEPT ![w] =
               [pc |-> "write", question_id |-> @.question_id,
                is_correct |-> @.is_correct, tag |-> @.tag, now |-> now,
                row |-> IF HasRecord(user_weaknesses, tag)
                        THEN (tag :> user_weaknesses[tag]) ELSE EmptyMap]]
    /\ UNCHANGED <<questions, study_logs, user_weaknesses, now, config,
                   session_errors, result, calls, probe, ui>>

\* the UPDATE or INSERT computed from the locals, and the commit
\* (database.py:296-313); an INSERT for a tag that has got a row meanwhile
\* breaks the primary key and the call ends with sqlite3.IntegrityError
writer_write(w) ==
    /\ writers[w].pc = "write"
    /\ LET me  == writers[w]
           tags == questions[me.question_id].skill_tags
           tag  == tags[me.tag]
           new  == _update_weakness(me.row, tag, ~me.is_correct, me.now)[tag]
           next == IF me.tag < Len(tags)
                   THEN [pc |-> "select", question_id |-> me.question_id,
                         is_correct |-> me.is_correct, tag |-> me.tag + 1]
                   ELSE [pc |-> "idle"]
       IN  IF ~HasRecord(me.row, tag) /\ HasRecord(user_weaknesses, tag)
           THEN /\ writers' = [writers EXCEPT ![w] = [pc |-> "idle"]]
                /\ result' = [op |-> "add_study_log",
                              raised |-> "IntegrityError"]
                /\ UNCHANGED user_weaknesses
           ELSE /\ writers' = [writers EXCEPT ![w] = next]
                /\ user_weaknesses' = (tag :> new) @@ user_weaknesses
                /\ UNCHANGED result
    /\ UNCHANGED <<questions, study_logs, now, config, session_errors,
                   calls, probe, ui>>

\* time passes between two operations
AdvanceClock(t) ==
    /\ t > now
    /\ now' = t
    /\ UNCHANGED <<questions, study_logs, user_weaknesses, config,
                   session_errors, result, calls, probe, ui, writers>>

\* Scheduler.generate_daily_plan(question_count, subcategory=..., skill_tag=...)
generate_daily_plan(question_count, subcategory, skill_tag) ==
    LET target_count == IF question_count # 0 THEN question_count
                        ELSE config.default_question_count
        all_questions == CandidatePool(questions, subcategory)
        call == [op |-> "generate_daily_plan", target_count |-> target_count,
                 skill_tag |-> skill_tag]
    IN  /\ \/ /\ skill_tag # None
              \* DatabaseManager has no get_questions_by_skill_tag
              /\ result' = call @@ [raised |-> "AttributeError",
                                    subcategory |-> subcategory]
           \/ /\ skill_tag = None
              /\ all_questions = <<>>
              /\ result' = call @@ [raised |-> None, pool |-> all_questions,
                     questions |-> <<>>, estimated_time_minutes |-> 0,
                     focus_tags |-> <<>>, created_at |-> now]
           \/ /\ skill_tag = None
              /\ all_questions # <<>>
              /\ \E selected \in SelectQuestions(questions, study_logs,
                        user_weaknesses, config, all_questions, target_count) :
                 \E plan \in _shuffle_with_constraints(questions, config, selected) :
                 \E focus \in _get_top_weakness_tags(user_weaknesses, 3) :
                     result' = call @@ [raised |-> None, pool |-> all_questions,
                         questions |-> plan,
                         estimated_time_minutes |-> Len(plan) * 2,
                         focus_tags |-> focus, created_at |-> now]
        /\ UNCHANGED <<questions, study_logs, user_weaknesses, now, config,
                       session_errors, calls, probe, ui, writers>>

\* the record of the calls since the reset after one more call
CallsAfter(tags, is_correct) ==
    [n |-> calls.n + 1,
     only |-> IF /\ ~is_correct
                 /\ Len(tags) = 1
                 /\ calls.only \in {None, tags[1]}
                 /\ calls.n = 0 \/ calls.only # None
              THEN tags[1] ELSE "mixed",
     wrong |-> [t \in Tags |->
                  IF t \in Range(tags) /\ ~is_correct
                  THEN calls.wrong[t] + 1 ELSE calls.wrong[t]],
     run |-> [t \in Tags |->
                IF t \notin Range(tags) THEN calls.run[t]
                ELSE IF is_correct THEN 0 ELSE calls.run[t] + 1]]

\* Scheduler.record_answer(question, is_correct)
record_answer(question_id, is_correct) ==
    LET tags == questions[question_id].skill_tags
        out  == RecordTags(session_errors, tags, is_correct)
    IN  /\ session_errors' = out.errors
        /\ result' = [op |-> "record_answer", question_id |-> question_id,
                      is_correct |-> is_correct,
                      drill |-> IF out.drill = None THEN NoDrill
                                ELSE _create_emergency_drill(questions,
                                         study_logs, now, out.drill)]
        /\ calls' = CallsAfter(tags, is_correct)
        /\ UNCHANGED <<questions, study_logs, user_weaknesses, now, config,
                       probe, ui, writers>>

\* a reset that also empties the attempt log
reset_session_clearing_log ==
    /\ session_errors' = EmptyMap
    /\ calls' = FreshCalls
    /\ result' = [op |-> "reset_session"]
    /\ study_logs' = <<>>
    /\ UNCHANGED <<questions, user_weaknesses, now, config, probe, ui, writers>>

\* Scheduler.reset_session()
reset_session ==
    /\ session_errors' = EmptyMap
    /\ calls' = FreshCalls
    /\ result' = [op |-> "reset_session"]
    /\ UNCHANGED <<questions, study_logs, user_weaknesses, now, config, probe, ui, writers>>


\* "weak" if w.weight > 1.5 else "improving" if w.weight > 1.0 else "strong"
status(weight) ==
    IF weight > 150 THEN "weak"
    ELSE IF weight > 100 THEN "improving"
    ELSE "strong"

\* round((total - errors) / total * 100, 1) in tenths of a percent, 0 without
\* attempts; a tie is exact in binary and goes to the even digit
accuracy(error_count, total_attempts) ==
    IF total_attempts > 0
    THEN Round((total_attempts - error_count) * 1000, total_attempts,
               (((total_attempts - error_count) * 1000) \div total_attempts) % 2 = 0)
    ELSE 0

\* Scheduler.get_progress_summary(): the tag rows by falling weight and the
\* attempt count of get_stats (its other statistics are not modelled)
get_progress_summary ==
    /\ \E order \in _get_top_weakness_tags(user_weaknesses,
                                            Cardinality(DOMAIN user_weaknesses)) :
           result' = [op |-> "get_progress_summary",
                      total_attempts |-> Len(study_logs),
                      tag_performance |->
                          [i \in DOMAIN order |->
                              LET w == user_weaknesses[order[i]]
                              IN  [tag |-> order[i],
                                   accuracy |-> accuracy(w.error_count,
                                                         w.total_attempts),
                                   attempts |-> w.total_attempts,
                                   weight |-> w.weight,
                                   status |-> status(w.weight)]]]
    /\ UNCHANGED <<questions, study_logs, user_weaknesses, now, config,
                   session_errors, calls, probe, ui, writers>>

\* Scheduler.get_recommended_focus(): the two heaviest tags and which of the
\* three messages is given (the accuracy figures are not modelled)
get_recommended_focus ==
    /\ \E order \in _get_top_weakness_tags(user_weaknesses, 2) :
           result' =
               [op |-> "get_recommended_focus",
                primary_focus |-> IF Len(order) >= 1 THEN order[1] ELSE None,
                secondary_focus |-> IF Len(order) >= 2 THEN order[2] ELSE None,
                message |->
                    IF order = <<>> THEN "no history"
                    ELSE IF user_weaknesses[order[1]].weight > 200 THEN "focus"
                    ELSE IF user_weaknesses[order[1]].weight > 150 THEN "weakest"
                    ELSE "balanced"]
    /\ UNCHANGED <<questions, study_logs, user_weaknesses, now, config,
                   session_errors, calls, probe, ui, writers>>

\* the save button of the scheduler settings (app.py:998-1005): the session
\* gets a new Scheduler, whose _current_session_errors is empty
save_scheduler_config(cfg) ==
    /\ config' = cfg
    /\ session_errors' = EmptyMap
    /\ calls' = FreshCalls
    /\ result' = [op |-> "save_scheduler_config"]
    /\ UNCHANGED <<questions, study_logs, user_weaknesses, now, probe, ui, writers>>

-----------------------------------------------------------------------------
(* app.py: the practice page.  current_question_idx counts from 0 as in the
   source; the persisted practice_state is read back only by a new browser
   session and is left out. *)

SessionTotal(u) == Len(u.current_plan)

CurrentQuestion(u) == u.current_plan[u.current_question_idx + 1]

\* max(answered_questions.keys()) if answered_questions else 0
furthest_idx(u) ==
    IF DOMAIN u.answered_questions = {} THEN 0
    ELSE CHOOSE m \in DOMAIN u.answered_questions :
             \A i \in DOMAIN u.answered_questions : i <= m

\* the answer the result view shows belongs to
AnswerKey(u) == <<u.round, u.current_question_idx>>

\* a question is on the screen (not the start form, not the summary)
QuestionShown(u) ==
    u.current_plan # <<>> /\ u.current_question_idx < SessionTotal(u)

\* the radio buttons of the start form: a type the bank has, mixed with both
PracticeTypes(qs) ==
    LET has(sub) == \E id \in 1..Len(qs) : qs[id].subcategory = sub
    IN  {sub \in {"RC", "CR"} : has(sub)}
            \cup (IF has("RC") /\ has("CR") THEN {None} ELSE {})

\* _save_current_log(question, result, ...): the store and the session state
\* it leaves; nothing is written when the key is in st.session_state
_save_current_log(u, question_id, is_correct) ==
    LET log_key == <<question_id, u.current_question_idx>>
        log == [question_id |-> question_id, is_correct |-> is_correct,
                timestamp |-> now]
    IN  IF log_key \in u.log_saved
        THEN [study_logs |-> study_logs, user_weaknesses |-> user_weaknesses,
              ui |-> u]
        ELSE [study_logs |-> Append(study_logs, log),
              user_weaknesses |-> UpdateTags(user_weaknesses,
                                      questions[question_id].skill_tags,
                                      ~is_correct, now),
              ui |-> [u EXCEPT !.session_logs = Append(@, log),
                               !.log_saved = @ \cup {log_key},
                               !.answers[AnswerKey(u)].logs = @ + 1]]

\* last_answer rebuilt from answered_questions[i]
HistoryAnswer(u, i) == [is_correct |-> u.answered_questions[i].is_correct]

\* the start button of the practice page (app.py:376-395)
start_practice(question_count, subcategory) ==
    LET all_questions == CandidatePool(questions, subcategory)
    IN  /\ ui.current_plan = <<>>
        /\ all_questions # <<>>
        /\ \E selected \in SelectQuestions(questions, study_logs, user_weaknesses,
                               config, all_questions, question_count) :
           \E plan \in _shuffle_with_constraints(questions, config, selected) :
               ui' = [ui EXCEPT !.current_plan = plan,
                                !.current_question_idx = 0,
                                !.session_logs = <<>>,
                                !.show_result = FALSE,
                                !.last_answer = [is_correct |-> None],
                                !.answered_questions = EmptyMap,
                                !.viewing_history = FALSE,
                                !.round = @ + 1]
        /\ session_errors' = EmptyMap
        /\ calls' = FreshCalls
        /\ UNCHANGED <<questions, study_logs, user_weaknesses, now, config,
                       result, probe, writers>>

\* an option button of render_question_options, and the result view that
\* the rerun draws (app.py:480-514)
answer(is_correct) ==
    /\ QuestionShown(ui)
    /\ ~ui.show_result
    /\ ui' = [ui EXCEPT
           !.last_answer = [is_correct |-> is_correct],
           !.show_result = TRUE,
           !.answered_questions =
               IF ui.current_question_idx \in DOMAIN @ THEN @
               ELSE (ui.current_question_idx :>
                        [is_correct |-> is_correct,
                         question_id |-> CurrentQuestion(ui)]) @@ @,
           !.answers = (AnswerKey(ui) :> [logs |-> 0, recorded |-> 0]) @@ @]
    /\ UNCHANGED <<questions, study_logs, user_weaknesses, now, config,
                   session_errors, result, calls, probe, writers>>

\* "next" of the normal flow (app.py:668-688): save the log, tell the
\* session monitor (its drill is only shown as a toast), advance
next_question ==
    /\ QuestionShown(ui)
    /\ ui.show_result
    /\ ~ui.viewing_history
    /\ LET question_id == CurrentQuestion(ui)
           is_correct == ui.last_answer.is_correct
           tags  == questions[question_id].skill_tags
           saved == _save_current_log(ui, question_id, is_correct)
       IN  /\ study_logs' = saved.study_logs
           /\ user_weaknesses' = saved.user_weaknesses
           /\ session_errors' = RecordTags(session_errors, tags, is_correct).errors
           /\ calls' = CallsAfter(tags, is_correct)
           /\ ui' = [saved.ui EXCEPT
                  !.answers[AnswerKey(ui)].recorded = @ + 1,
                  !.current_question_idx = @ + 1,
                  !.show_result = FALSE,
                  !.last_answer = [is_correct |-> None]]
    /\ UNCHANGED <<questions, now, config, result, probe, writers>>

\* "previous" (app.py:607-626): the log is saved first unless history is
\* being viewed
previous_question ==
    /\ QuestionShown(ui)
    /\ ui.show_result
    /\ ui.current_question_idx > 0
    /\ ui.current_question_idx - 1 \in DOMAIN ui.answered_questions
    /\ LET saved == IF ~ui.viewing_history
                    THEN _save_current_log(ui, CurrentQuestion(ui),
                                           ui.last_answer.is_correct)
                    ELSE [study_logs |-> study_logs,
                          user_weaknesses |-> user_weaknesses, ui |-> ui]
       IN  /\ study_logs' = saved.study_logs
           /\ user_weaknesses' = saved.user_weaknesses
           /\ ui' = [saved.ui EXCEPT
                  !.viewing_history = TRUE,
                  !.current_question_idx = @ - 1,
                  !.last_answer = HistoryAnswer(ui, ui.current_question_idx - 1),
                  !.show_result = TRUE]
    /\ UNCHANGED <<questions, now, config, session_errors, result, calls, probe, writers>>

\* "next" while viewing history (app.py:632-645)
next_history ==
    /\ QuestionShown(ui)
    /\ ui.show_result
    /\ ui.viewing_history
    /\ ui.current_question_idx < furthest_idx(ui)
    /\ ui' = [ui EXCEPT
           !.current_question_idx = @ + 1,
           !.last_answer = HistoryAnswer(ui, ui.current_question_idx + 1),
           !.show_result = TRUE]
    /\ UNCHANGED <<questions, study_logs, user_weaknesses, now, config,
                   session_errors, result, calls, probe, writers>>

\* "continue" at the furthest answered question (app.py:646-656)
continue_practice ==
    /\ QuestionShown(ui)
    /\ ui.show_result
    /\ ui.viewing_history
    /\ ui.current_question_idx = furthest_idx(ui)
    /\ ui.current_question_idx + 1 < SessionTotal(ui)
    /\ ui' = [ui EXCEPT
           !.viewing_history = FALSE,
           !.current_question_idx = @ + 1,
           !.show_result = FALSE,
           !.last_answer = [is_correct |-> None]]
    /\ UNCHANGED <<questions, study_logs, user_weaknesses, now, config,
                   session_errors, result, calls, probe, writers>>

\* "view summary" at the furthest answered question, the last of the plan
\* (app.py:657-662)
view_summary ==
    /\ QuestionShown(ui)
    /\ ui.show_result
    /\ ui.viewing_history
    /\ ui.current_question_idx = furthest_idx(ui)
    /\ ui.current_question_idx + 1 >= SessionTotal(ui)
    /\ ui' = [ui EXCEPT
           !.viewing_history = FALSE,
           !.current_question_idx = @ + 1]
    /\ UNCHANGED <<questions, study_logs, user_weaknesses, now, config,
                   session_errors, result, calls, probe, writers>>

\* "jump to latest" while viewing history (app.py:690-701)
jump_to_latest ==
    /\ QuestionShown(ui)
    /\ ui.show_result
    /\ ui.viewing_history
    /\ ui.current_question_idx < furthest_idx(ui)
    /\ furthest_idx(ui) + 1 < SessionTotal(ui)
    /\ ui' = [ui EXCEPT
           !.viewing_history = FALSE,
           !.current_question_idx = furthest_idx(ui) + 1,
           !.show_result = FALSE,
           !.last_answer = [is_correct |-> None]]
    /\ UNCHANGED <<questions, study_logs, user_weaknesses, now, config,
                   session_errors, result, calls, probe, writers>>

\* a button of the navigation strip for the answered question i, shown
\* above the question and above the result view alike (app.py:415-440)
nav_jump(i) ==
    /\ QuestionShown(ui)
    /\ i \in DOMAIN ui.answered_questions
    /\ i < Min(SessionTotal(ui), 15)
    /\ i # ui.current_question_idx
    /\ ui' = [ui EXCEPT
           !.viewing_history = TRUE,
           !.current_question_idx = i,
           !.last_answer = HistoryAnswer(ui, i),
           !.show_result = TRUE]
    /\ UNCHANGED <<questions, study_logs, user_weaknesses, now, config,
                   session_errors, result, calls, probe, writers>>

\* the summary is on the screen
SummaryShown(u) ==
    u.current_plan # <<>> /\ u.current_question_idx >= SessionTotal(u)

\* "another round" on the summary (app.py:772-780)
another_round ==
    /\ SummaryShown(ui)
    /\ ui.session_logs # <<>>
    /\ ui' = [ui EXCEPT
           !.current_plan = <<>>,
           !.current_question_idx = 0,
           !.session_logs = <<>>,
           !.answered_questions = EmptyMap,
           !.viewing_history = FALSE]
    /\ UNCHANGED <<questions, study_logs, user_weaknesses, now, config,
                   session_errors, result, calls, probe, writers>>

\* "view progress" on the summary (app.py:764-770)
view_progress ==
    /\ SummaryShown(ui)
    /\ ui.session_logs # <<>>
    /\ ui' = [ui EXCEPT
           !.current_plan = <<>>,
           !.answered_questions = EmptyMap,
           !.viewing_history = FALSE]
    /\ UNCHANGED <<questions, study_logs, user_weaknesses, now, config,
                   session_errors, result, calls, probe, writers>>

\* "back to dashboard" on a summary without logs (app.py:731-737)
return_dashboard ==
    /\ SummaryShown(ui)
    /\ ui.session_logs = <<>>
    /\ ui' = [ui EXCEPT !.current_plan = <<>>]
    /\ UNCHANGED <<questions, study_logs, user_weaknesses, now, config,
                   session_errors, result, calls, probe, writers>>

\* DatabaseManager._calculate_weight called on its own
call_calculate_weight ==
    /\ probe.fn = "_calculate_weight"
    /\ ~probe.returned
    /\ probe' = [probe EXCEPT !.returned = TRUE,
                     !.weight = _calculate_weight(probe.error_count, probe.total,
                                                  probe.now, probe.last_seen)]
    /\ UNCHANGED <<questions, study_logs, user_weaknesses, now, config,
                   session_errors, result, calls, ui, writers>>

-----------------------------------------------------------------------------
(* Specifications *)

\* the moments at which the learner may act: the start, half a day, nine and
\* fifteen days after it
Instants == {0, 1, 18, 30}
PlanInstants == {0, 2}

\* a log is written now (app.py) or was written a day ago and is imported
\* now (gist_sync.py)
LogTimestamps == {now} \cup {t \in {now - TicksPerDay} : t >= 0}

QuestionIds == 1..Len(questions)

\* question_count: None (0) or a number
QuestionCounts == 0..MaxTarget

Next ==
    \/ \E id \in 1..(Len(questions) + 1), ok \in BOOLEAN, ts \in LogTimestamps :
           Len(study_logs) < MaxLogs /\ add_study_log(id, ok, ts)
    \/ \E t \in PlanInstants : AdvanceClock(t)
    \/ \E n \in QuestionCounts, sub \in Subcategories \cup {None},
          tag \in Tags \cup {None} :
           generate_daily_plan(n, sub, tag)
    \/ \E id \in QuestionIds, ok \in BOOLEAN :
           calls.n < MaxCalls /\ record_answer(id, ok)
    \/ reset_session

Spec == Init /\ [][Next]_vars

\* the store alone
NextStore ==
    \/ \E id \in 1..(Len(questions) + 1), ok \in BOOLEAN :
           Len(study_logs) < MaxLogs /\ add_study_log(id, ok, now)
    \/ \E t \in Instants : AdvanceClock(t)

\* the store operations read no setting of the scheduler
InitStore == Init /\ config = DefaultConfig

SpecStore == InitStore /\ [][NextStore]_vars

\* the practice page: the slider starts at 5 questions
PracticeCounts == {5}

InitPractice == Init /\ config = DefaultConfig

NextPractice ==
    \/ \E n \in PracticeCounts, sub \in PracticeTypes(questions) :
           ui.round < MaxRounds /\ start_practice(n, sub)
    \/ \E ok \in BOOLEAN :
           Cardinality(DOMAIN ui.answers) < MaxAnswers /\ answer(ok)
    \/ next_question
    \/ previous_question
    \/ next_history
    \/ continue_practice
    \/ view_summary
    \/ jump_to_latest
    \/ \E i \in 0..2 : nav_jump(i)
    \/ another_round
    \/ view_progress
    \/ return_dashboard

SpecPractice == InitPractice /\ [][NextPractice]_vars

\* the store and the progress page
NextProgress ==
    \/ \E id \in QuestionIds, ok \in BOOLEAN :
           Len(study_logs) < MaxProgressLogs /\ add_study_log(id, ok, now)
    \/ \E t \in Instants : AdvanceClock(t)
    \/ get_progress_summary

SpecProgress == InitStore /\ [][NextProgress]_vars

\* the plan generator over the six-question store
InitOrder ==
    /\ questions = StoreSix
    /\ study_logs = <<>>
    /\ user_weaknesses = EmptyMap
    /\ now = 0
    /\ config = ConfigTwo
    /\ session_errors = EmptyMap
    /\ result = NoResult
    /\ calls = FreshCalls
    /\ probe = NoProbe
    /\ ui = NoSession
    /\ writers = NoWriters

NextOrder ==
    \/ \E id \in QuestionIds, ok \in BOOLEAN :
           Len(study_logs) < MaxOrderLogs /\ add_study_log(id, ok, now)
    \/ \E n \in QuestionCounts, sub \in {"RC", None} :
           result.op # "generate_daily_plan" /\ generate_daily_plan(n, sub, None)

SpecOrder == InitOrder /\ [][NextOrder]_vars

\* the plan generator over a store with a tag that can be mastered while one
\* of its questions is still unseen
InitQuota ==
    /\ questions = StoreQuota
    /\ study_logs = <<>>
    /\ user_weaknesses = EmptyMap
    /\ now = 0
    /\ config \in Configs
    /\ session_errors = EmptyMap
    /\ result = NoResult
    /\ calls = FreshCalls
    /\ probe = NoProbe
    /\ ui = NoSession
    /\ writers = NoWriters

NextQuota ==
    \/ \E id \in QuestionIds, ok \in BOOLEAN :
           Len(study_logs) < MaxQuotaLogs /\ add_study_log(id, ok, now)
    \/ \E n \in QuestionCounts, sub \in {"CR", "RC", None} :
           result.op # "generate_daily_plan" /\ generate_daily_plan(n, sub, None)

SpecQuota == InitQuota /\ [][NextQuota]_vars

\* every operation of the scheduler next to the one writer of the store
NextFrame ==
    \/ \E id \in QuestionIds, ok \in BOOLEAN :
           Len(study_logs) < MaxFrameLogs /\ add_study_log(id, ok, now)
    \/ \E id \in QuestionIds, ok \in BOOLEAN :
           calls.n < MaxFrameCalls /\ record_answer(id, ok)
    \/ reset_session
    \/ \E tag \in {"Weaken", None} : generate_daily_plan(1, None, tag)
    \/ get_recommended_focus
    \/ get_progress_summary
    \/ \E cfg \in Configs : save_scheduler_config(cfg)

\* over the store with a question of two tags
InitFrame == Init /\ questions = StoreCR

SpecFrame == InitFrame /\ [][NextFrame]_vars

\* the session monitor over the drill store: attempts on three questions at
\* different times (a drill reads the question and the time of an attempt,
\* not its outcome), answers to one question of each tag
DrillInstants == {14, 18}

DrillLogIds == {1, 3, 4}

DrillAnswerIds == {1, 3, 9}

InitDrill ==
    /\ questions = StoreDrill
    /\ study_logs = <<>>
    /\ user_weaknesses = EmptyMap
    /\ now = 0
    /\ config = DefaultConfig
    /\ session_errors = EmptyMap
    /\ result = NoResult
    /\ calls = FreshCalls
    /\ probe = NoProbe
    /\ ui = NoSession
    /\ writers = NoWriters

NextDrill ==
    \/ \E id \in DrillLogIds :
           Len(study_logs) < MaxDrillLogs /\ add_study_log(id, FALSE, now)
    \/ \E t \in DrillInstants : AdvanceClock(t)
    \/ \E id \in DrillAnswerIds, ok \in BOOLEAN :
           calls.n < MaxDrillCalls /\ record_answer(id, ok)
    \/ reset_session

SpecDrill == InitDrill /\ [][NextDrill]_vars

\* two sessions writing to the store at the same time
InitWriters == Init /\ questions = StoreCR /\ config = DefaultConfig

NextWriters ==
    \/ \E w \in Writers, id \in QuestionIds, ok \in BOOLEAN :
           Len(study_logs) < MaxWriterLogs /\ writer_insert_log(w, id, ok)
    \/ \E w \in Writers : writer_select(w)
    \/ \E w \in Writers : writer_write(w)

SpecWriters == InitWriters /\ [][NextWriters]_vars

\* the store and the plan generator
\* (a plan does not depend on the result before it: asking for a second plan
\* right after one reaches no state that asking once does not)
NextPlan ==
    \/ \E id \in QuestionIds, ok \in BOOLEAN :
           Len(study_logs) < MaxLogs /\ add_study_log(id, ok, now)
    \/ \E n \in QuestionCounts, sub \in Subcategories \cup {None},
          tag \in {"Weaken", None} :
           result.op # "generate_daily_plan" /\ generate_daily_plan(n, sub, tag)

SpecPlan == Init /\ [][NextPlan]_vars

\* the session monitor
NextSession ==
    \/ \E id \in QuestionIds, ok \in BOOLEAN :
           calls.n < MaxCalls /\ record_answer(id, ok)
    \/ reset_session

SpecSession == Init /\ [][NextSession]_vars

\* _calculate_weight on its own, for every argument in the bounds
InitCalc ==
    /\ questions = StoreCR
    /\ study_logs = <<>>
    /\ user_weaknesses = EmptyMap
    /\ now = 0
    /\ config = DefaultConfig
    /\ session_errors = EmptyMap
    /\ result = NoResult
    /\ calls = FreshCalls
    /\ ui = NoSession
    /\ writers = NoWriters
    /\ \E total \in 1..MaxTotal, days \in 0..MaxDays, part \in 0..(TicksPerDay - 1),
          last \in {0, BadTime} :
       \E errors \in 0..total :
           probe = [fn |-> "_calculate_weight", error_count |-> errors,
                    total |-> total, now |-> days * TicksPerDay + part,
                    last_seen |-> last, returned |-> FALSE, weight |-> 0]

NextCalc == call_calculate_weight

SpecCalc == InitCalc /\ [][NextCalc]_vars


\* the difficulty adjustment of _weighted_sample on its own, called with a
\* question's difficulty (0 for none) and its largest tag weight
call_diff_boost ==
    /\ probe.fn = "diff_boost"
    /\ ~probe.returned
    /\ probe' = [probe EXCEPT !.returned = TRUE,
                     !.diff_boost = diff_boost(probe.tag_weight, probe.difficulty)]
    /\ UNCHANGED <<questions, study_logs, user_weaknesses, now, config,
                   session_errors, result, calls, ui, writers>>

InitBoost ==
    /\ questions = StoreCR
    /\ study_logs = <<>>
    /\ user_weaknesses = EmptyMap
    /\ now = 0
    /\ config = DefaultConfig
    /\ session_errors = EmptyMap
    /\ result = NoResult
    /\ calls = FreshCalls
    /\ ui = NoSession
    /\ writers = NoWriters
    /\ \E step \in 0..MaxWeightSteps, difficulty \in 0..5 :
           probe = [fn |-> "diff_boost", tag_weight |-> 30 + 5 * step,
                    difficulty |-> difficulty, returned |-> FALSE,
                    diff_boost |-> 0]

NextBoost == call_diff_boost

SpecBoost == InitBoost /\ [][NextBoost]_vars

-----------------------------------------------------------------------------
(* Claims about the plan generator, checked under SpecPlan *)

PlanReturned == result.op = "generate_daily_plan" /\ result.raised = None

InPlan(id) == id \in Range(result.questions)

IsRC(id) == questions[id].subcategory = "RC"

Attempted(id) == \E i \in DOMAIN study_logs : study_logs[i].question_id = id

\* C1: a returned plan holds no question id twice.
C1_NoDuplicateQuestions ==
    PlanReturned =>
        \A i, j \in DOMAIN result.questions :
            i # j => result.questions[i] # result.questions[j]

\* a plan of all three critical-reasoning questions made of a keep-alive pick,
\* the rest of the unseen pool and a question from the seen pool
C1_Witness ==
    /\ PlanReturned
    /\ questions = StoreCR
    /\ mastered_tags(user_weaknesses) # {}
    /\ Len(result.questions) = 3
    /\ \E id \in Range(result.questions) : Attempted(id)
    /\ \E id \in Range(result.questions) :
           /\ ~Attempted(id)
           /\ Range(questions[id].skill_tags) \cap mastered_tags(user_weaknesses) # {}

\* C2: two RC questions of the candidate pool with the same passage key are
\* both in the returned plan or both out of it.
C2_PassageAtomicity ==
    PlanReturned =>
        \A a, b \in Range(result.pool) :
            IsRC(a) /\ IsRC(b) /\ GroupKey(questions, a) = GroupKey(questions, b)
                => (InPlan(a) <=> InPlan(b))

\* a plan that holds the two questions of one passage and leaves another RC
\* question of the pool out
C2_Witness ==
    /\ PlanReturned
    /\ \E a, b \in Range(result.pool) :
           /\ a # b /\ IsRC(a) /\ IsRC(b)
           /\ GroupKey(questions, a) = GroupKey(questions, b)
           /\ InPlan(a) /\ InPlan(b)
    /\ \E c \in Range(result.pool) : IsRC(c) /\ ~InPlan(c)

LargestGroup(pool) ==
    LET sizes == {Cardinality({b \in Range(pool) :
                      IsRC(b) /\ GroupKey(questions, b) = GroupKey(questions, a)}) :
                  a \in {c \in Range(pool) : IsRC(c)}} \cup {1}
    IN  CHOOSE m \in sizes : \A k \in sizes : k <= m

\* C3 as claimed: for a positive target the returned plan has exactly
\* min(target_count, size of the candidate pool) questions.
C3_LengthIsMin ==
    PlanReturned /\ result.target_count > 0 =>
        Len(result.questions) = Min(result.target_count, Len(result.pool))

\* C3 as amended: the plan has at least min(target_count, pool size)
\* questions, exactly that many when the pool holds no RC question, and
\* overshoots by less than the largest passage group of the pool otherwise; all
\* its questions come from the pool, and a target that is not smaller than
\* the pool returns every question of the pool.
C3_LengthAtLeastMin ==
    PlanReturned /\ result.target_count > 0 =>
        LET wanted == Min(result.target_count, Len(result.pool))
        IN  /\ Len(result.questions) >= wanted
            /\ Len(result.questions) < wanted + LargestGroup(result.pool)
            /\ (\A id \in Range(result.pool) : ~IsRC(id))
                   => Len(result.questions) = wanted
            /\ Range(result.questions) \subseteq Range(result.pool)
            /\ result.target_count >= Len(result.pool)
                   => Range(result.questions) = Range(result.pool)

\* a plan longer than the target, completed by a whole passage
C3_Witness ==
    /\ PlanReturned
    /\ result.target_count > 0
    /\ Len(result.questions) > result.target_count
    /\ \E id \in Range(result.questions) : IsRC(id)


-----------------------------------------------------------------------------
(* Claims about the session monitor, checked under SpecSession *)

AnswerRecorded == result.op = "record_answer"

DrillReturned == AnswerRecorded /\ result.drill.tag # None

\* C4: while every call since the reset was a wrong answer to a question
\* whose only tag is T, call number k returns a drill, and one for T, exactly
\* when k is a multiple of consecutive_error_threshold (calls n and 2n, not
\* calls 1..n-1 nor n+1..2n-1).
C4_DrillEveryThreshold ==
    AnswerRecorded /\ calls.only \in Tags =>
        IF calls.n % consecutive_error_threshold = 0
        THEN result.drill.tag = calls.only
        ELSE result.drill = NoDrill

\* the second drill for T, on the sixth wrong answer in a row
C4_Witness ==
    /\ AnswerRecorded
    /\ calls.only \in Tags
    /\ calls.n = 2 * consecutive_error_threshold
    /\ result.drill.tag = calls.only

\* C5: a correct answer leaves the counter of every tag of the question at 0,
\* and a drill for T is returned only when the wrong answers in a row on
\* questions carrying T, counted since the last correct one, have reached
\* consecutive_error_threshold.
C5_CorrectAnswerBreaksStreak ==
    AnswerRecorded =>
        /\ result.is_correct =>
               \A t \in Range(questions[result.question_id].skill_tags) :
                   ErrorCount(session_errors, t) = 0
        /\ DrillReturned =>
               calls.run[result.drill.tag] >= consecutive_error_threshold

\* four wrong answers on T with a correct one among them: a streak of two,
\* and no drill
C5_Witness ==
    /\ AnswerRecorded
    /\ ~result.is_correct
    /\ result.drill = NoDrill
    /\ \E t \in Range(questions[result.question_id].skill_tags) :
           /\ calls.wrong[t] = consecutive_error_threshold + 1
           /\ calls.run[t] = 2
           /\ ErrorCount(session_errors, t) = 2
    /\ \A t \in Tags : calls.wrong[t] > 0 => calls.run[t] < consecutive_error_threshold

-----------------------------------------------------------------------------
(* Claims about the weakness records, checked under SpecStore *)

\* the logged attempts on questions carrying tag t (an attempt on an id the
\* store does not hold carries no tag)
AttemptsOn(t) ==
    {i \in 1..Len(study_logs) :
        /\ study_logs[i].question_id \in 1..Len(questions)
        /\ t \in Range(questions[study_logs[i].question_id].skill_tags)}

ErrorsOn(t) == {i \in AttemptsOn(t) : ~study_logs[i].is_correct}

C6_CountsMatchLogs ==
    \A t \in Tags :
        /\ HasRecord(user_weaknesses, t) <=> AttemptsOn(t) # {}
        /\ HasRecord(user_weaknesses, t) =>
               /\ user_weaknesses[t].total_attempts = Cardinality(AttemptsOn(t))
               /\ user_weaknesses[t].error_count = Cardinality(ErrorsOn(t))

C6_NoRecordDeleted ==
    \A t \in Tags : HasRecord(user_weaknesses, t) => HasRecord(user_weaknesses', t)

\* C6: for every skill tag T a weakness record exists iff some logged attempt
\* was on a question carrying T, its total_attempts is the number of those
\* attempts and its error_count the number of them that were incorrect, and
\* no step deletes a record.
C6_WeaknessCountsLogs == []C6_CountsMatchLogs /\ [][C6_NoRecordDeleted]_vars

\* one attempt has updated both tags of a question, another only one of them
C6_Witness ==
    \E t1, t2 \in Tags :
        /\ t1 # t2
        /\ AttemptsOn(t1) \cap AttemptsOn(t2) # {}
        /\ HasRecord(user_weaknesses, t1) /\ HasRecord(user_weaknesses, t2)
        /\ user_weaknesses[t1].total_attempts = 3
        /\ user_weaknesses[t1].error_count = 2
        /\ user_weaknesses[t2].total_attempts = 1

\* the weight formula of the specification, in hundredths, as the pair
\* <<numerator, denominator>> of the unrounded value
FormulaWeight(error_count, attempt_count, days) ==
    LET capped == IF 16 + days < 30 THEN 16 + days ELSE 30
        tf20   == IF 10 * error_count < 3 * attempt_count /\ days > 7 /\ capped < 24
                  THEN 24 ELSE capped
    IN  <<5 * (attempt_count + 3 * error_count) * tf20, 2 * attempt_count>>

\* weight is the unrounded value rounded to a hundredth (a tie either way)
IsRounded(weight, value) ==
    LET d == 2 * (weight * value[2] - value[1])
    IN  d <= value[2] /\ -d <= value[2]

\* the record of t after a step that changed it
Updated(t) ==
    /\ HasRecord(user_weaknesses', t)
    /\ ~HasRecord(user_weaknesses, t) \/ user_weaknesses'[t] # user_weaknesses[t]

WholeDays(t) == (now - user_weaknesses[t].last_seen) \div TicksPerDay

StoresFormula(t, days) ==
    IsRounded(user_weaknesses'[t].weight,
              FormulaWeight(user_weaknesses'[t].error_count,
                            user_weaknesses'[t].total_attempts, days))

\* C7 as stated: every update, the creating one with days_since = 0, stores
\* the formula's weight for the new counts.
C7_EveryUpdateStoresFormula ==
    [][\A t \in Tags : Updated(t) =>
          StoresFormula(t, IF HasRecord(user_weaknesses, t)
                           THEN WholeDays(t) ELSE 0)]_vars

\* C7: an update of an existing record stores the formula's weight for the
\* new counts and the whole days since the previous last_seen; the update
\* that creates the record stores 2.0 after an error and 1.0 otherwise.
C7_UpdateStoresFormula ==
    [][\A t \in Tags : Updated(t) =>
          IF HasRecord(user_weaknesses, t)
          THEN StoresFormula(t, WholeDays(t))
          ELSE user_weaknesses'[t].weight =
                   IF user_weaknesses'[t].error_count = 1 THEN 200 ELSE 100]_vars

\* a record updated nine days after its creation (0.5 * 1.25 stored as 0.62)
\* next to a record just created by an error (2.0)
C7_Witness ==
    \E t1, t2 \in Tags :
        /\ HasRecord(user_weaknesses, t1) /\ HasRecord(user_weaknesses, t2)
        /\ user_weaknesses[t1].total_attempts = 2
        /\ user_weaknesses[t1].error_count = 0
        /\ user_weaknesses[t1].weight = 62
        /\ user_weaknesses[t2].total_attempts = 1
        /\ user_weaknesses[t2].weight = 200
        /\ user_weaknesses[t2].last_seen = now

\* C8: every weakness record has 0 <= error_count <= total_attempts.
C8_ErrorsWithinAttempts ==
    \A t \in DOMAIN user_weaknesses :
        /\ 0 <= user_weaknesses[t].error_count
        /\ user_weaknesses[t].error_count <= user_weaknesses[t].total_attempts

\* a record whose attempts were all errors, next to one without any error
C8_Witness ==
    \E t1, t2 \in DOMAIN user_weaknesses :
        /\ user_weaknesses[t1].error_count = user_weaknesses[t1].total_attempts
        /\ user_weaknesses[t1].total_attempts >= 2
        /\ user_weaknesses[t2].error_count = 0

-----------------------------------------------------------------------------
(* Claims about _calculate_weight, checked under SpecCalc *)

WeightReturned == probe.fn = "_calculate_weight" /\ probe.returned

LowRate == 10 * probe.error_count < 3 * probe.total

ProbeDays == days_since(probe.now, probe.last_seen)

\* C9: for the total, now and last_seen of the call, the returned weight is
\* at most the weight of every larger error count up to total, also where
\* the error rate crosses 0.3 and the keep-alive branch switches off.
C9_WeightMonotoneInErrors ==
    WeightReturned =>
        \A e2 \in probe.error_count..probe.total :
            probe.weight <= _calculate_weight(e2, probe.total, probe.now,
                                              probe.last_seen)

\* a stale tag with a rate below 0.3 whose next error takes the rate over 0.3
\* and the weight strictly up
C9_Witness ==
    /\ WeightReturned
    /\ LowRate
    /\ ProbeDays > 7
    /\ 10 * (probe.error_count + 1) >= 3 * probe.total
    /\ probe.weight < _calculate_weight(probe.error_count + 1, probe.total,
                                        probe.now, probe.last_seen)

\* C10: for an error rate below 0.3 the returned weight is at most the weight
\* of every longer whole-day gap, and from a gap of 14 days on it is the
\* weight of the 14-day gap.
C10_WeightMonotoneInStaleness ==
    WeightReturned /\ LowRate /\ probe.last_seen # BadTime =>
        /\ \A d2 \in ProbeDays..(MaxDays + 1) :
               probe.weight <= _calculate_weight(probe.error_count, probe.total,
                                   probe.last_seen + d2 * TicksPerDay,
                                   probe.last_seen)
        /\ ProbeDays >= 14 =>
               probe.weight = _calculate_weight(probe.error_count, probe.total,
                                   probe.last_seen + 14 * TicksPerDay,
                                   probe.last_seen)

\* a gap beyond 14 days: the weight of the 14-day gap, above the weight of
\* the same counts seen today
C10_Witness ==
    /\ WeightReturned
    /\ LowRate
    /\ probe.last_seen # BadTime
    /\ ProbeDays > 14
    /\ probe.weight = _calculate_weight(probe.error_count, probe.total,
                          probe.last_seen + 14 * TicksPerDay, probe.last_seen)
    /\ probe.weight > _calculate_weight(probe.error_count, probe.total,
                          probe.last_seen, probe.last_seen)

-----------------------------------------------------------------------------
(* Claims about the value of _calculate_weight, checked under SpecCalc *)

\* the whole days between the two arguments, 0 for an unparsable last_seen
ProbeGap ==
    IF probe.last_seen = BadTime THEN 0
    ELSE (probe.now - probe.last_seen) \div TicksPerDay

\* C11: the returned weight is (0.5 + 1.5 * error_count / total) * time_factor
\* rounded to a hundredth, time_factor being min(1.5, 0.8 + 0.05 * days_since)
\* and at least 1.2 for a rate below 0.3 with days_since > 7; 6 errors in 10
\* attempts seen 3 days ago give 1.33, a rate of 0.1 seen 8 days ago 0.78.
C11_WeightIsFormula ==
    WeightReturned =>
        /\ IsRounded(probe.weight,
                     FormulaWeight(probe.error_count, probe.total, ProbeGap))
        /\ probe.error_count = 6 /\ probe.total = 10 /\ ProbeGap = 3 =>
               probe.weight = 133
        /\ 10 * probe.error_count = probe.total /\ ProbeGap = 8 =>
               probe.weight = 78

\* the scenario of the specification: 6 of 10, three days ago, 1.33
C11_Witness ==
    /\ WeightReturned
    /\ probe.error_count = 6 /\ probe.total = 10
    /\ probe.last_seen # BadTime /\ ProbeGap = 3
    /\ probe.weight = 133

-----------------------------------------------------------------------------
(* Claims about the order of a plan *)

TagsOf(id) == Range(questions[id].skill_tags)

\* at least 2 * (max_consecutive_same_tag + 1) questions, two tags or more,
\* no tag on more than max_consecutive_same_tag questions
PoolSpread(pool) ==
    /\ Len(pool) >= 2 * (config.max_consecutive_same_tag + 1)
    /\ Cardinality(UNION {TagsOf(id) : id \in Range(pool)}) >= 2
    /\ \A t \in Tags :
           Cardinality({id \in Range(pool) : t \in TagsOf(id)})
               <= config.max_consecutive_same_tag

\* the questions at positions i .. i + n - 1 of the plan share a tag
RunAt(i, n) ==
    \E t \in Tags : \A k \in i..(i + n - 1) : t \in TagsOf(result.questions[k])

\* C12: a plan drawn from a pool of at least 2 * (max_consecutive_same_tag + 1)
\* questions over two tags or more, no tag on more than
\* max_consecutive_same_tag of them, has no max_consecutive_same_tag + 1
\* consecutive questions with a common tag.
C12_NoLongRun ==
    PlanReturned /\ PoolSpread(result.pool) =>
        \A i \in 1..(Len(result.questions) - config.max_consecutive_same_tag) :
            ~RunAt(i, config.max_consecutive_same_tag + 1)

\* the whole pool in an order with max_consecutive_same_tag questions of one
\* tag next to each other
C12_Witness ==
    /\ PlanReturned
    /\ PoolSpread(result.pool)
    /\ Len(result.questions) = Len(result.pool)
    /\ \E i \in 1..(Len(result.questions) - 1) :
           RunAt(i, config.max_consecutive_same_tag)

\* C13: in the order of a returned plan the questions of one passage group
\* occupy consecutive positions.
C13_PassageAdjacent ==
    PlanReturned =>
        \A i, j \in DOMAIN result.questions :
            /\ i < j
            /\ IsRC(result.questions[i]) /\ IsRC(result.questions[j])
            /\ GroupKey(questions, result.questions[i])
                   = GroupKey(questions, result.questions[j])
            => \A k \in i..j :
                   /\ IsRC(result.questions[k])
                   /\ GroupKey(questions, result.questions[k])
                          = GroupKey(questions, result.questions[i])

-----------------------------------------------------------------------------
(* Claims about the filters of generate_daily_plan, checked under SpecPlan *)

PlanCalled == result.op = "generate_daily_plan"

\* the questions a subcategory and a skill tag (None: no filter) let through
Filtered(subcategory, skill_tag) ==
    {id \in 1..Len(questions) :
        /\ subcategory = None \/ questions[id].subcategory = subcategory
        /\ skill_tag = None \/ skill_tag \in TagsOf(id)}

\* the filters of the call left no candidate question
NoCandidate ==
    IF result.skill_tag = None THEN result.pool = <<>>
    ELSE Filtered(result.subcategory, result.skill_tag) = {}

\* C14: a call whose filters leave no candidate question returns, without
\* raising, the plan with no question, no estimated time and no focus tag.
C14_EmptyPoolEmptyPlan ==
    PlanCalled /\ NoCandidate =>
        /\ result.raised = None
        /\ result.questions = <<>>
        /\ result.estimated_time_minutes = 0
        /\ result.focus_tags = <<>>

\* C15: a call with a skill tag returns a plan whose questions all carry the
\* tag and have the subcategory asked for, the empty plan when no question
\* matches.
C15_FiltersHonoured ==
    PlanCalled /\ result.skill_tag # None =>
        /\ result.raised = None
        /\ Range(result.questions)
               \subseteq Filtered(result.subcategory, result.skill_tag)
        /\ Filtered(result.subcategory, result.skill_tag) = {}
               => result.questions = <<>>

-----------------------------------------------------------------------------
(* Claims about get_progress_summary, checked under SpecProgress *)

\* C16: every row of tag_performance has status "weak" iff weight > 1.5,
\* "strong" iff weight < 1.0 and "improving" iff 1.0 <= weight <= 1.5.
C16_StatusByWeight ==
    result.op = "get_progress_summary" =>
        \A i \in DOMAIN result.tag_performance :
            LET row == result.tag_performance[i]
            IN  /\ row.status = "weak" <=> row.weight > 150
                /\ row.status = "strong" <=> row.weight < 100
                /\ row.status = "improving" <=>
                       (100 <= row.weight /\ row.weight <= 150)

-----------------------------------------------------------------------------
(* Claims about the practice page, checked under SpecPractice *)

\* no result view is open: every answer submitted so far has been left
NoResultOpen == ~QuestionShown(ui) \/ ~ui.show_result

\* C17: every answer the learner submits is appended to the log by exactly
\* one add_study_log: never twice, and once by the time the learner has moved
\* on from it.
C17_OneLogPerAnswer ==
    \A k \in DOMAIN ui.answers :
        /\ ui.answers[k].logs <= 1
        /\ NoResultOpen => ui.answers[k].logs = 1

-----------------------------------------------------------------------------
(* Claims about the order of the pools, checked under SpecPlan *)

\* the questions of the candidate pool that are selected one by one
NonRC(pool) == {id \in Range(pool) : questions[id].subcategory # "RC"}

-----------------------------------------------------------------------------
(* Claims about the keep-alive quota, checked under SpecQuota *)

\* the question carries a mastered tag
CarriesMastered(id) ==
    Range(questions[id].skill_tags) \cap mastered_tags(user_weaknesses) # {}

\* the never-attempted questions of the candidate pool that carry a mastered
\* tag
MasteredCandidates ==
    {id \in Range(result.pool) : ~Attempted(id) /\ CarriesMastered(id)}

\* C19: whenever the candidate pool holds a never-attempted question with a
\* mastered tag, the plan holds at least
\* min(max(1, floor(target_count * keep_alive_quota)), number of such
\* questions) questions with a mastered tag, RC questions in the pool or not.
C19_KeepAliveQuota ==
    (PlanReturned /\ result.pool # <<>> /\ MasteredCandidates # {}) =>
        Cardinality({id \in Range(result.questions) : CarriesMastered(id)})
            >= Min(keep_alive_count(config, result.target_count),
                   Cardinality(MasteredCandidates))

-----------------------------------------------------------------------------
(* Claims about the difficulty adjustment, checked under SpecBoost *)

BoostReturned ==
    probe.fn = "diff_boost" /\ probe.returned /\ probe.difficulty \in 1..5

\* C20: for a difficulty of 1..5, a largest tag weight above 1.5 gives the
\* boost 1.3 below difficulty 3 and 0.7 above it, and no easier question a
\* smaller boost than a harder one; a largest tag weight below 1.0 gives the
\* mirror image; a weight in [1.0, 1.5] gives 1.0.
C20_DifficultyBoost ==
    BoostReturned =>
        /\ probe.tag_weight > 150 =>
              /\ probe.difficulty < 3 => probe.diff_boost = 13
              /\ probe.difficulty > 3 => probe.diff_boost = 7
              /\ \A harder \in (probe.difficulty + 1)..5 :
                     probe.diff_boost >= diff_boost(probe.tag_weight, harder)
        /\ probe.tag_weight < 100 =>
              /\ probe.difficulty > 3 => probe.diff_boost = 13
              /\ probe.difficulty < 3 => probe.diff_boost = 7
              /\ \A easier \in 1..(probe.difficulty - 1) :
                     probe.diff_boost >= diff_boost(probe.tag_weight, easier)
        /\ probe.tag_weight \in 100..150 => probe.diff_boost = 10

-----------------------------------------------------------------------------
(* Claims about the counters of the session monitor, checked under
   SpecSession *)

\* the step is a call of record_answer with a wrong answer
WrongAnswerStep ==
    /\ calls'.n = calls.n + 1
    /\ result'.op = "record_answer"
    /\ ~result'.is_correct

\* the tags of the question of the call, in the order of question.skill_tags
StepTags == questions[result'.question_id].skill_tags

\* the place of the tag that triggered the drill, past the end without a drill
DrillPlace ==
    IF result'.drill.tag = None THEN Len(StepTags) + 1
    ELSE CHOOSE k \in DOMAIN StepTags : StepTags[k] = result'.drill.tag

\* C21 as stated: a wrong answer counts every tag of the question up by one,
\* except the tag that triggered a drill, which is left at 0, also for a
\* question with several tags.
C21_EveryTagCounted ==
    [][WrongAnswerStep =>
          \A k \in DOMAIN StepTags :
              ErrorCount(session_errors', StepTags[k]) =
                  IF StepTags[k] = result'.drill.tag THEN 0
                  ELSE ErrorCount(session_errors, StepTags[k]) + 1]_vars

\* C21 amended: a wrong answer counts up by one every tag before the one that
\* triggered a drill, leaves that tag at 0 and leaves the tags after it as
\* they were; without a drill every tag is counted up by one.
C21_TagsUpToDrillCounted ==
    [][WrongAnswerStep =>
          \A k \in DOMAIN StepTags :
              ErrorCount(session_errors', StepTags[k]) =
                  IF k < DrillPlace
                  THEN ErrorCount(session_errors, StepTags[k]) + 1
                  ELSE IF k = DrillPlace THEN 0
                  ELSE ErrorCount(session_errors, StepTags[k])]_vars

\* a drill for the first tag of a two-tag question whose second tag has its
\* first wrong answer and still counts 0
C21_Witness ==
    /\ DrillReturned
    /\ LET tags == questions[result.question_id].skill_tags
       IN  /\ Len(tags) = 2
           /\ result.drill.tag = tags[1]
           /\ calls.run[tags[2]] = 1
           /\ ErrorCount(session_errors, tags[2]) = 0

-----------------------------------------------------------------------------
(* Claims about what the operations leave alone, checked under SpecFrame *)

\* C22: a tag's counter changes only in a call of record_answer for a
\* question that carries the tag, or in reset_session, which leaves it at 0;
\* no other operation changes a counter.
C22_ExplicitResetOnly ==
    [][\A t \in Tags :
          ErrorCount(session_errors', t) # ErrorCount(session_errors, t) =>
              \/ /\ result'.op = "reset_session"
                 /\ ErrorCount(session_errors', t) = 0
              \/ /\ result'.op = "record_answer"
                 /\ t \in Range(questions[result'.question_id].skill_tags)]_vars

\* C25: the question table, the attempt log and the weakness records change
\* only in add_study_log; generate_daily_plan, record_answer with its drill,
\* reset_session, get_recommended_focus and get_progress_summary leave them
\* as they are.
C25_SchedulerReadsOnly ==
    [][(\/ questions' # questions
        \/ study_logs' # study_logs
        \/ user_weaknesses' # user_weaknesses) =>
           result'.op = "add_study_log"]_vars

\* a drill built from a store that holds an attempt and its weakness records
C25_Witness ==
    /\ DrillReturned
    /\ result.drill.questions # <<>>
    /\ study_logs # <<>>
    /\ user_weaknesses # EmptyMap

-----------------------------------------------------------------------------
(* Claims about the drill, checked under SpecDrill *)

\* the questions gathered for the tag of the returned drill
Gathered == get_questions_by_tags(questions, result.drill.tag, drill_pool_limit)

\* the question has an attempt less than drill_recent_days old
AttemptedRecently(id) ==
    \E i \in DOMAIN study_logs :
        /\ study_logs[i].question_id = id
        /\ now - study_logs[i].timestamp < drill_recent_days * TicksPerDay

\* C23: the drill for T holds min(5, n) distinct questions of the n gathered
\* for T, n at most 10, each carrying T, and a recently attempted one only if
\* every gathered question not attempted recently is in the drill too.
C23_DrillConstruction ==
    DrillReturned =>
        LET drill == result.drill.questions
        IN  /\ Len(Gathered) <= drill_pool_limit
            /\ Len(drill) = Min(drill_size, Len(Gathered))
            /\ Cardinality(Range(drill)) = Len(drill)
            /\ Range(drill) \subseteq Range(Gathered)
            /\ \A id \in Range(drill) :
                   result.drill.tag \in Range(questions[id].skill_tags)
            /\ (\E id \in Range(drill) : AttemptedRecently(id)) =>
                   \A id \in Range(Gathered) :
                       ~AttemptedRecently(id) => id \in Range(drill)

\* a drill of five filled up with a recently attempted question, out of six
\* gathered ones
C23_Witness ==
    /\ DrillReturned
    /\ Len(Gathered) > drill_size
    /\ Len(result.drill.questions) = drill_size
    /\ \E id \in Range(result.drill.questions) : AttemptedRecently(id)
    /\ \E id \in Range(Gathered) :
           AttemptedRecently(id) /\ id \notin Range(result.drill.questions)

-----------------------------------------------------------------------------
(* Claims about concurrent writers, checked under SpecWriters *)

\* the rows of study_logs for questions that carry the tag
LogsCarrying(tag) ==
    {i \in DOMAIN study_logs :
        tag \in Range(questions[study_logs[i].question_id].skill_tags)}

\* every call of add_study_log has returned
WritersIdle == \A w \in Writers : writers[w].pc = "idle"

\* C24: no update is lost when calls of add_study_log interleave: once the
\* calls have returned, the record of every tag counts one attempt for each
\* logged answer to a question carrying the tag, and one error for each wrong
\* one.
C24_NoLostUpdate ==
    WritersIdle =>
        \A tag \in Tags :
            LET rows == LogsCarrying(tag)
                n == IF HasRecord(user_weaknesses, tag)
                     THEN user_weaknesses[tag].total_attempts ELSE 0
                e == IF HasRecord(user_weaknesses, tag)
                     THEN user_weaknesses[tag].error_count ELSE 0
            IN  /\ n = Cardinality(rows)
                /\ e = Cardinality({i \in rows : ~study_logs[i].is_correct})

-----------------------------------------------------------------------------
(* Claims about the answers the session monitor is told, checked under
   SpecPractice *)

\* C26: every answer the learner submits is passed to record_answer exactly
\* once, whatever way the learner leaves its result view: never twice, and
\* once by the time no result view is open.
C26_EveryAnswerRecorded ==
    \A k \in DOMAIN ui.answers :
        /\ ui.answers[k].recorded <= 1
        /\ NoResultOpen => ui.answers[k].recorded = 1

-----------------------------------------------------------------------------
(* Claims about the range of the counters, checked under SpecSession *)

\* C27: after every call of record_answer or reset_session the counter of
\* every tag is at least 0 and at most consecutive_error_threshold - 1.
C27_CounterBelowThreshold ==
    \A t \in Tags :
        ErrorCount(session_errors, t) \in 0..(consecutive_error_threshold - 1)

\* a tag back at threshold - 1 after its drill, through a question with two
\* tags
C27_Witness ==
    /\ AnswerRecorded
    /\ Len(questions[result.question_id].skill_tags) = 2
    /\ \E t \in Range(questions[result.question_id].skill_tags) :
           /\ ErrorCount(session_errors, t) = consecutive_error_threshold - 1
           /\ calls.wrong[t] > consecutive_error_threshold

-----------------------------------------------------------------------------
(* Claims about the range of the stored weights, checked under SpecStore *)

\* C28: with a clock that never runs backwards, every weight stored in a
\* weakness record lies in [0.4, 3.0], the first-observation weights 1.0 and
\* 2.0 included.
C28_WeightRange ==
    \A tag \in DOMAIN user_weaknesses :
        user_weaknesses[tag].weight \in 40..300

\* a tag updated down to 0.4, below the configured min_weight 0.5 that nothing
\* clamps to
C28_Witness ==
    \E tag \in DOMAIN user_weaknesses :
        /\ user_weaknesses[tag].weight = 40
        /\ user_weaknesses[tag].total_attempts >= 2

-----------------------------------------------------------------------------
(* Claims about the keep-alive branch, checked under SpecCalc *)

\* the weight of the call with min(1.5, 0.8 + 0.05 * days) as the time factor
\* and no keep-alive branch after it
WeightWithoutKeepAlive ==
    LET rateNum == probe.error_count
        rateDen == probe.total
        g       == GCD(rateDen, rateNum)
    IN  Round(BASE_WEIGHT * 5 * (rateDen + 3 * rateNum) * Min(30, 16 + ProbeDays),
              2 * rateDen,
              <<rateNum \div g, rateDen \div g, Min(ProbeDays, 14)>>
                  \in FloatTieDown)

\* C29: for every error_count, total and whole number of days, the weight
\* _calculate_weight returns equals the weight computed without the branch
\* 'if error_rate < 0.3 and days_since > 7: time_factor = max(time_factor, 1.2)'.
C29_KeepAliveChangesNothing ==
    WeightReturned => probe.weight = WeightWithoutKeepAlive

\* a call that enters the branch: rate below 0.3 after more than seven days
C29_Witness ==
    /\ WeightReturned
    /\ LowRate
    /\ ProbeDays > 7
    /\ ProbeDays < 14

-----------------------------------------------------------------------------
(* Claims about the mixed pool, checked under SpecQuota *)

MixedPool ==
    /\ \E id \in Range(result.pool) : IsRC(id)
    /\ NonRC(result.pool) # {}

PlanHasRC == \E id \in Range(result.questions) : IsRC(id)

\* C30: a plan drawn from a pool with both RC and non-RC questions contains
\* an RC question only if the pool holds fewer non-RC questions than
\* target_count.
C30_RCOnlyToFillUp ==
    (PlanReturned /\ MixedPool /\ PlanHasRC)
        => Cardinality(NonRC(result.pool)) < result.target_count

\* a mixed pool with as many non-RC questions as the plan asks for, some of
\* them attempted, and a plan without the RC question
C30_Witness ==
    /\ PlanReturned
    /\ MixedPool
    /\ Cardinality(NonRC(result.pool)) = result.target_count
    /\ \E id \in NonRC(result.pool) : Attempted(id)
    /\ ~PlanHasRC
    /\ Len(result.questions) = result.target_count

=============================================================================
